---- MODULE Spec2Model ----
(***************************************************************************)
(* Model of the books HTTP service of main.go: the two mux handlers, the   *)
(* five CRUD handlers, the JSON response helpers, and the books table the  *)
(* SQL statements act on.  Requests are handled concurrently, one          *)
(* goroutine per request; a request that reaches the database occupies a   *)
(* slot between the issue of its single SQL statement and the return of    *)
(* that statement.                                                         *)
(***************************************************************************)
EXTENDS Integers, Sequences, FiniteSets, TLC

(* ---------------------------- bounds ----------------------------------- *)

\* largest id the SERIAL sequence hands out in a run
MaxId == 2
\* largest reading of the database clock in a run
MaxClock == 1

\* the requests in flight: one goroutine per request
Slots == {1, 2}
\* requests handled one after the other
OneSlot == {1}

(* ------------------------ HTTP status codes ---------------------------- *)

StatusOK == 200
StatusCreated == 201
StatusNoContent == 204
StatusBadRequest == 400
StatusNotFound == 404
StatusMethodNotAllowed == 405
StatusInternalServerError == 500

(* ----------------------------- inputs ---------------------------------- *)

Methods == {"GET", "POST", "PUT", "DELETE", "PATCH"}

\* the path segment after "/books/", as a sequence of characters
Segments ==
    { <<"1">>, <<"+", "2">>, <<>>, <<"a", "b", "c">>, <<"1", "/">> }

NoBody == [kind |-> "none", title |-> "", author |-> ""]

\* request bodies: undecodable bytes, a body that never finishes arriving,
\* and JSON objects (an absent or null member decodes to "")
Bodies ==
    { [kind |-> "malformed", title |-> "", author |-> ""],
      [kind |-> "stalled", title |-> "", author |-> ""],
      [kind |-> "json", title |-> "", author |-> "A1"],
      [kind |-> "json", title |-> "T1", author |-> ""],
      [kind |-> "json", title |-> "T1", author |-> "A1"],
      [kind |-> "json", title |-> "T2", author |-> "A2"] }

(* --------------------------- strconv.ParseInt -------------------------- *)

Digits == {"0", "1", "2", "3", "4", "5", "6", "7", "8", "9"}

DigitVal(c) ==
    CASE c = "0" -> 0 [] c = "1" -> 1 [] c = "2" -> 2 [] c = "3" -> 3
      [] c = "4" -> 4 [] c = "5" -> 5 [] c = "6" -> 6 [] c = "7" -> 7
      [] c = "8" -> 8 [] c = "9" -> 9

RECURSIVE DecimalVal(_, _)
DecimalVal(s, acc) ==
    IF s = <<>> THEN acc ELSE DecimalVal(Tail(s), acc * 10 + DigitVal(Head(s)))

\* variant: reads the leading digits and ignores what follows, as atoi does
ParseIntLenient(s) ==
    LET n == IF \E i \in 1..Len(s) : s[i] \notin Digits
             THEN (CHOOSE i \in 1..Len(s) :
                      /\ s[i] \notin Digits
                      /\ \A j \in 1..(i - 1) : s[j] \in Digits) - 1
             ELSE Len(s)
    IN  [ok |-> TRUE, val |-> DecimalVal(SubSeq(s, 1, n), 0)]

\* strconv.ParseInt(s, 10, 64): an optional sign, then one or more decimal
\* digits and nothing else.  The range error of a value outside 64 bits
\* needs at least 19 digits; the segments drawn here are shorter.
ParseInt(s) ==
    LET signed == s # <<>> /\ Head(s) \in {"+", "-"}
        ds == IF signed THEN Tail(s) ELSE s
        neg == signed /\ Head(s) = "-"
    IN  IF ds = <<>> \/ \E i \in 1..Len(ds) : ds[i] \notin Digits
        THEN [ok |-> FALSE, val |-> 0]
        ELSE [ok |-> TRUE,
              val |-> IF neg THEN 0 - DecimalVal(ds, 0) ELSE DecimalVal(ds, 0)]

(* ------------------------ json.Decoder.Decode -------------------------- *)

Decode(body) ==
    IF body.kind = "json"
    THEN [err |-> FALSE, Title |-> body.title, Author |-> body.author]
    ELSE [err |-> TRUE, Title |-> "", Author |-> ""]

\* variant: only the title is required
RequiredMissingTitleOnly(payload) == payload.Title = ""

RequiredMissing(payload) == payload.Title = "" \/ payload.Author = ""

(* ----------------------------- records --------------------------------- *)

NoBook == [id |-> 0, title |-> "", author |-> "",
           created_at |-> 0, updated_at |-> 0]

\* a Go slice of Book: the nil slice and the empty non-nil slice differ
NilSlice == [nil |-> TRUE, elems |-> <<>>]
AppendBook(sl, b) == [nil |-> FALSE, elems |-> Append(sl.elems, b)]

(* --------------------------- response helpers -------------------------- *)

\* json.Encoder.Encode of the values the handlers pass to respondJSON
EncodeBook(b) == [kind |-> "book", book |-> b, msg |-> "", elems |-> <<>>]
EncodeBooks(sl) ==
    IF sl.nil
    THEN [kind |-> "null", book |-> NoBook, msg |-> "", elems |-> <<>>]
    ELSE [kind |-> "array", book |-> NoBook, msg |-> "", elems |-> sl.elems]
EncodeError(m) == [kind |-> "error", book |-> NoBook, msg |-> m, elems |-> <<>>]
EmptyBody == [kind |-> "empty", book |-> NoBook, msg |-> "", elems |-> <<>>]

respondJSON(status, encoded) == [status |-> status, resp |-> encoded]
respondError(status, m) == respondJSON(status, EncodeError(m))
respondInternalError == respondError(StatusInternalServerError, "internal server error")

(* ------------------------- the SQL statements -------------------------- *)

RECURSIVE OrderById(_)
OrderById(t) ==
    IF DOMAIN t = {} THEN <<>>
    ELSE LET m == CHOOSE i \in DOMAIN t : \A j \in DOMAIN t : i <= j
         IN  <<t[m]>> \o OrderById([i \in DOMAIN t \ {m} |-> t[i]])

\* variant: the two parameters bound in the wrong order
InsertRowSwapped(t, id, title, author, now) ==
    [i \in DOMAIN t \cup {id} |->
        IF i = id
        THEN [id |-> id, title |-> author, author |-> title,
              created_at |-> now, updated_at |-> now]
        ELSE t[i]]

\* INSERT INTO books (title, author) VALUES ($1, $2): id from the sequence,
\* both timestamps from the column default NOW()
InsertRow(t, id, title, author, now) ==
    [i \in DOMAIN t \cup {id} |->
        IF i = id
        THEN [id |-> id, title |-> title, author |-> author,
              created_at |-> now, updated_at |-> now]
        ELSE t[i]]

\* variant: an upsert, which inserts the row when no row has the id
UpdateRowUpsert(t, id, title, author, now) ==
    [i \in DOMAIN t \cup {id} |->
        IF i = id
        THEN [id |-> id, title |-> title, author |-> author,
              created_at |-> IF id \in DOMAIN t THEN t[id].created_at ELSE now,
              updated_at |-> now]
        ELSE t[i]]

\* UPDATE books SET title = $1, author = $2, updated_at = NOW() WHERE id = $3
UpdateRow(t, id, title, author, now) ==
    [i \in DOMAIN t |->
        IF i = id
        THEN [t[i] EXCEPT !.title = title, !.author = author, !.updated_at = now]
        ELSE t[i]]

\* DELETE FROM books WHERE id = $1
DeleteRow(t, id) == [i \in DOMAIN t \ {id} |-> t[i]]

(* ------------------------------ routing -------------------------------- *)

\* handleBooks: switch r.Method
BooksRoute(method) ==
    CASE method = "GET" -> "list"
      [] method = "POST" -> "create"
      [] OTHER -> "none"

\* variant: the default case of the switch reads the book
BookByIDRouteDefaultGet(method) ==
    CASE method = "PUT" -> "update"
      [] method = "DELETE" -> "delete"
      [] OTHER -> "get"

\* handleBookByID: switch r.Method (after the id was parsed)
BookByIDRoute(method) ==
    CASE method = "GET" -> "get"
      [] method = "PUT" -> "update"
      [] method = "DELETE" -> "delete"
      [] OTHER -> "none"

\* status 0: the handler goes on to its database call
Proceed == [status |-> 0, resp |-> EmptyBody]

\* createBook up to the database call
createBookCheck(body) ==
    LET payload == Decode(body)
    IN  IF payload.err THEN respondError(StatusBadRequest, "invalid JSON")
        ELSE IF RequiredMissing(payload)
        THEN respondError(StatusBadRequest, "title and author are required")
        ELSE Proceed

\* updateBook up to the database call
updateBookCheck(body) ==
    LET payload == Decode(body)
    IN  IF payload.err THEN respondError(StatusBadRequest, "invalid JSON")
        ELSE IF RequiredMissing(payload)
        THEN respondError(StatusBadRequest, "title and author are required")
        ELSE Proceed

(* ------------------- handlers from the database call on ---------------- *)

\* how a database call can go wrong
\*   query : db.Query returns an error
\*   scan  : rows.Scan returns an error on row k+1
\*   iter  : rows.Next returns false after k rows with rows.Err() set
\*   err   : the statement fails and has no effect
\*   lost  : the statement takes effect, the caller gets an error
\*   rows  : Exec succeeds, res.RowsAffected returns an error
ListFails == {"none", "query", "scan", "iter"}
GetFails == {"none", "err"}
WriteFails == {"none", "err", "lost"}
DeleteFails == {"none", "err", "lost", "rows"}

RECURSIVE Collect(_, _)
\* the loop of listBooks over the first k rows
Collect(rows, k) ==
    IF k = 0 THEN NilSlice
    ELSE AppendBook(Collect(rows, k - 1), rows[k])

listBooks(t, fail, k) ==
    IF fail = "query" THEN respondInternalError
    ELSE IF fail = "scan" THEN respondInternalError
    ELSE respondJSON(StatusOK, EncodeBooks(Collect(OrderById(t), k)))

getBook(t, id, fail) ==
    IF fail = "none" /\ id \notin DOMAIN t
    THEN respondError(StatusNotFound, "book not found")
    ELSE IF fail # "none" THEN respondInternalError
    ELSE respondJSON(StatusOK, EncodeBook(t[id]))

\* t is the table after the INSERT ... RETURNING
createBook(t, id, fail) ==
    IF fail # "none" THEN respondInternalError
    ELSE respondJSON(StatusCreated, EncodeBook(t[id]))

\* t is the table after the UPDATE ... RETURNING
updateBook(t, id, fail) ==
    IF fail = "none" /\ id \notin DOMAIN t
    THEN respondError(StatusNotFound, "book not found")
    ELSE IF fail # "none" THEN respondInternalError
    ELSE respondJSON(StatusOK, EncodeBook(t[id]))

\* variant: the number of affected rows is not looked at
deleteBookUnchecked(fail, affected) ==
    IF fail \in {"err", "lost"} THEN respondInternalError
    ELSE [status |-> StatusNoContent, resp |-> EmptyBody]

\* affected is what res.RowsAffected() handed back
deleteBook(fail, affected) ==
    IF fail \in {"err", "lost"} THEN respondInternalError
    ELSE IF affected = 0 THEN respondError(StatusNotFound, "book not found")
    ELSE [status |-> StatusNoContent, resp |-> EmptyBody]

(* ------------------------------- state --------------------------------- *)

VARIABLES
    table,      \* the books table: id -> row
    nextId,     \* next value of the SERIAL sequence of books.id
    clock,      \* the database clock NOW() reads
    slots,      \* requests in flight, blocked in a database call or body read
    last,       \* the most recent response, with the request it answers
    prev,       \* the table as it was before the step that wrote last
    deleted,    \* ids for which a DELETE answered 204
    pristine,   \* id -> record returned by a 201, until an UPDATE or DELETE of id
    submitted   \* (title, author) pairs handed to the database by one request

vars == <<table, nextId, clock, slots, last, prev, deleted, pristine, submitted>>

\* raced: the row the statement addresses was deleted while it was in flight
IdleSlot ==
    [pc |-> "idle", method |-> "", seg |-> <<>>, body |-> NoBody, now |-> 0,
     raced |-> FALSE]

NoResponse ==
    [handler |-> "none", method |-> "", seg |-> <<>>, body |-> NoBody,
     op |-> "none", id |-> 0, fail |-> "none", dbCalls |-> 0, raced |-> FALSE,
     status |-> 0, resp |-> EmptyBody]

EmptyTable == [i \in {} |-> NoBook]

Init ==
    /\ table = EmptyTable
    /\ nextId = 1
    /\ clock = 0
    /\ slots = [s \in Slots |-> IdleSlot]
    /\ last = NoResponse
    /\ prev = EmptyTable
    /\ deleted = {}
    /\ pristine = EmptyTable
    /\ submitted = {}

Pair(body) == [title |-> Decode(body).Title, author |-> Decode(body).Author]

Without(f, id) == [i \in DOMAIN f \ {id} |-> f[i]]

\* a response written without any database call
Answer(handler, method, seg, body, id, r) ==
    /\ last' = [handler |-> handler, method |-> method, seg |-> seg,
                body |-> body, op |-> "none", id |-> id, fail |-> "none",
                dbCalls |-> 0, raced |-> FALSE,
                status |-> r.status, resp |-> r.resp]
    /\ prev' = table
    /\ UNCHANGED <<table, nextId, clock, slots, deleted, pristine, submitted>>

\* the handler blocks: in a database call (pc is the operation) or in the
\* read of the request body (pc = "body")
Block(s, pc, method, seg, body) ==
    /\ slots' = [slots EXCEPT ![s] =
                    [pc |-> pc, method |-> method, seg |-> seg,
                     body |-> body,
                     now |-> IF pc \in {"create", "update"} THEN clock ELSE 0,
                     raced |-> FALSE]]
    /\ submitted' = IF pc \in {"create", "update"}
                    THEN submitted \cup {Pair(body)} ELSE submitted
    /\ UNCHANGED <<table, nextId, clock, last, prev, deleted, pristine>>

PendingCreates == Cardinality({s \in Slots : slots[s].pc = "create"})

(* ------------------------------ actions -------------------------------- *)

\* a request on /books, up to its database call
HandleBooks(s, method, body) ==
    /\ slots[s].pc = "idle"
    /\ LET route == BooksRoute(method)
       IN  CASE route = "list" -> Block(s, "list", method, <<>>, body)
             [] route = "create" ->
                  IF body.kind = "stalled"
                  THEN Block(s, "body", method, <<>>, body)
                  ELSE IF createBookCheck(body).status # 0
                  THEN Answer("handleBooks", method, <<>>, body, 0,
                              createBookCheck(body))
                  ELSE /\ nextId + PendingCreates <= MaxId
                       /\ Block(s, "create", method, <<>>, body)
             [] OTHER ->
                  Answer("handleBooks", method, <<>>, body, 0,
                         respondError(StatusMethodNotAllowed, "method not allowed"))

\* a request on /books/<seg>, up to its database call
HandleBookByID(s, method, seg, body) ==
    /\ slots[s].pc = "idle"
    /\ LET parsed == ParseInt(seg)
           route == BookByIDRoute(method)
       IN  IF ~parsed.ok
           THEN Answer("handleBookByID", method, seg, body, 0,
                       respondError(StatusBadRequest, "invalid id"))
           ELSE CASE route = "get" -> Block(s, "get", method, seg, body)
                  [] route = "update" ->
                       IF body.kind = "stalled"
                       THEN Block(s, "body", method, seg, body)
                       ELSE IF updateBookCheck(body).status # 0
                       THEN Answer("handleBookByID", method, seg, body,
                                   parsed.val, updateBookCheck(body))
                       ELSE Block(s, "update", method, seg, body)
                  [] route = "delete" -> Block(s, "delete", method, seg, body)
                  [] OTHER ->
                       Answer("handleBookByID", method, seg, body, parsed.val,
                              respondError(StatusMethodNotAllowed, "method not allowed"))

\* the database call of slot s returned and the handler answered; removed
\* tells that the statement deleted the row of id
Respond(s, op, id, fail, r, removed) ==
    /\ last' = [handler |-> IF op \in {"list", "create"} THEN "handleBooks"
                            ELSE "handleBookByID",
                method |-> slots[s].method, seg |-> slots[s].seg,
                body |-> slots[s].body, op |-> op, id |-> id, fail |-> fail,
                dbCalls |-> 1, raced |-> slots[s].raced,
                status |-> r.status, resp |-> r.resp]
    /\ prev' = table
    /\ slots' = [t \in DOMAIN slots |->
                    IF t = s THEN IdleSlot
                    ELSE IF removed /\ slots[t].pc = "update"
                            /\ ParseInt(slots[t].seg).val = id
                    THEN [slots[t] EXCEPT !.raced = TRUE]
                    ELSE slots[t]]

\* listBooks: SELECT ... ORDER BY id, the scan loop, the response
ListBooksDb(s, fail, k) ==
    /\ slots[s].pc = "list"
    /\ k \in 0..Cardinality(DOMAIN table)
    /\ fail = "none" => k = Cardinality(DOMAIN table)
    /\ fail = "scan" => k < Cardinality(DOMAIN table)
    /\ fail = "query" => k = 0
    /\ Respond(s, "list", 0, fail, listBooks(table, fail, k), FALSE)
    /\ UNCHANGED <<table, nextId, clock, deleted, pristine, submitted>>

\* getBook: SELECT ... WHERE id = $1 and the response
GetBookDb(s, fail) ==
    /\ slots[s].pc = "get"
    /\ LET id == ParseInt(slots[s].seg).val
       IN  Respond(s, "get", id, fail, getBook(table, id, fail), FALSE)
    /\ UNCHANGED <<table, nextId, clock, deleted, pristine, submitted>>

\* createBook: INSERT ... RETURNING and the response
CreateBookDb(s, fail) ==
    /\ slots[s].pc = "create"
    /\ LET p == Pair(slots[s].body)
           t == IF fail = "err" THEN table
                ELSE InsertRow(table, nextId, p.title, p.author, slots[s].now)
           r == createBook(t, nextId, fail)
       IN  /\ table' = t
           /\ nextId' = IF fail = "err" THEN nextId ELSE nextId + 1
           /\ pristine' = IF r.status = StatusCreated
                          THEN [i \in DOMAIN pristine \cup {nextId} |->
                                   IF i = nextId THEN r.resp.book ELSE pristine[i]]
                          ELSE pristine
           /\ Respond(s, "create", nextId, fail, r, FALSE)
    /\ UNCHANGED <<clock, deleted, submitted>>

\* updateBook: UPDATE ... RETURNING and the response
UpdateBookDb(s, fail) ==
    /\ slots[s].pc = "update"
    /\ LET id == ParseInt(slots[s].seg).val
           p == Pair(slots[s].body)
           t == IF fail = "err" THEN table
                ELSE UpdateRow(table, id, p.title, p.author, slots[s].now)
       IN  /\ table' = t
           /\ pristine' = IF fail = "err" THEN pristine ELSE Without(pristine, id)
           /\ Respond(s, "update", id, fail, updateBook(t, id, fail), FALSE)
    /\ UNCHANGED <<nextId, clock, deleted, submitted>>

\* deleteBook: DELETE, RowsAffected and the response
DeleteBookDb(s, fail, reported) ==
    /\ slots[s].pc = "delete"
    /\ LET id == ParseInt(slots[s].seg).val
           t == IF fail = "err" THEN table ELSE DeleteRow(table, id)
           actual == IF id \in DOMAIN table THEN 1 ELSE 0
           r == deleteBook(fail, reported)
       IN  /\ reported \in {0, actual}
           /\ fail # "rows" => reported = actual
           /\ table' = t
           /\ pristine' = IF fail = "err" THEN pristine ELSE Without(pristine, id)
           /\ deleted' = IF r.status = StatusNoContent
                         THEN deleted \cup {id} ELSE deleted
           /\ Respond(s, "delete", id, fail, r, DOMAIN t # DOMAIN table)
    /\ UNCHANGED <<nextId, clock, submitted>>

\* the database never answers the statement of slot s
DbHang(s) ==
    /\ slots[s].pc \in {"list", "get", "create", "update", "delete"}
    /\ slots' = [slots EXCEPT ![s] = [IdleSlot EXCEPT !.pc = "hung"]]
    /\ UNCHANGED <<table, nextId, clock, last, prev, deleted, pristine, submitted>>

\* time passes on the database server
Tick ==
    /\ clock < MaxClock
    /\ clock' = clock + 1
    /\ UNCHANGED <<table, nextId, slots, last, prev, deleted, pristine, submitted>>

BodiesRead(route, B) == IF route \in {"create", "update"} THEN B ELSE {NoBody}

\* the requests of slots S, with methods M, path segments G and bodies B
Arrive(S, M, G, B) ==
    \/ \E s \in S, m \in M :
          \E b \in BodiesRead(BooksRoute(m), B) : HandleBooks(s, m, b)
    \/ \E s \in S, m \in M, seg \in G :
          \E b \in BodiesRead(IF ParseInt(seg).ok THEN BookByIDRoute(m) ELSE "none", B) :
             HandleBookByID(s, m, seg, b)

\* the database answers the statements of slots S, failing as in F, or not
Database(S, F) ==
    \/ \E s \in S, f \in ListFails \cap F, k \in 0..MaxId : ListBooksDb(s, f, k)
    \/ \E s \in S, f \in GetFails \cap F : GetBookDb(s, f)
    \/ \E s \in S, f \in WriteFails \cap F : CreateBookDb(s, f)
    \/ \E s \in S, f \in WriteFails \cap F : UpdateBookDb(s, f)
    \/ \E s \in S, f \in DeleteFails \cap F, n \in 0..1 : DeleteBookDb(s, f, n)
    \/ \E s \in S : DbHang(s)

AllFails == ListFails \cup GetFails \cup WriteFails \cup DeleteFails

\* requests one at a time, every request shape, every database failure
Next ==
    \/ Arrive(OneSlot, Methods, Segments, Bodies)
    \/ Database(OneSlot, AllFails)
    \/ Tick

Spec == Init /\ [][Next]_vars

\* two requests in flight at once, all of them well formed
RaceMethods == {"GET", "POST", "PUT", "DELETE"}
RaceSegments == { <<"1">> }
RaceBodies == {b \in Bodies : createBookCheck(b).status = 0}
RaceFails == {"none", "lost"}

NextRace ==
    \/ Arrive(Slots, RaceMethods, RaceSegments, RaceBodies)
    \/ Database(Slots, RaceFails)
    \/ Tick

RaceSpec == Init /\ [][NextRace]_vars

\* the handler's own steps are taken whenever they stay possible; whether
\* the database answers is up to the database
FairSpec ==
    /\ Spec
    /\ \A s \in OneSlot :
          /\ WF_vars(\E f \in ListFails, k \in 0..MaxId : ListBooksDb(s, f, k))
          /\ WF_vars(\E f \in GetFails : GetBookDb(s, f))
          /\ WF_vars(\E f \in WriteFails : CreateBookDb(s, f))
          /\ WF_vars(\E f \in WriteFails : UpdateBookDb(s, f))
          /\ WF_vars(\E f \in DeleteFails, n \in 0..1 : DeleteBookDb(s, f, n))

TypeOK ==
    /\ nextId \in 1..(MaxId + 1)
    /\ clock \in 0..MaxClock
    /\ DOMAIN table \subseteq 1..MaxId

(* ------------------------------ claims --------------------------------- *)

\* the path segments of Segments that are no base-10 integer
BadSegments == { <<>>, <<"a", "b", "c">>, <<"1", "/">> }

PairOf(b) == [title |-> b.title, author |-> b.author]

\* C1: once a DELETE of an id answered 204, no row has that id again (later
\* Creates get fresh ids) and every GET of it that the database serves
\* answers 404; a DELETE the database serves for an id with no row answers
\* 404 with the error envelope and leaves the table as it was.
C1_DeleteThenNotFound ==
    /\ deleted \cap DOMAIN table = {}
    /\ (last.op = "get" /\ last.fail = "none" /\ last.id \in deleted)
          => last.status = StatusNotFound
    /\ (last.op = "delete" /\ last.fail = "none" /\ last.id \notin DOMAIN prev)
          => /\ last.status = StatusNotFound
             /\ last.resp = EncodeError("book not found")
             /\ table = prev

\* a GET of a deleted id answered 404 after a later Create added a row
C1_Witness ==
    /\ last.op = "get" /\ last.fail = "none"
    /\ last.id \in deleted
    /\ last.status = StatusNotFound
    /\ DOMAIN table # {}

\* C2: a POST that answers 201 returns the row it inserted: a fresh id from
\* the sequence, the title and author of the body, created_at = updated_at;
\* and a GET of that id the database serves, with no UPDATE or DELETE of the
\* id executed in between, answers 200 with exactly that record.
C2_CreateThenGet ==
    /\ (last.op = "create" /\ last.status = StatusCreated)
          => /\ last.resp.kind = "book"
             /\ last.resp.book.id = last.id
             /\ last.id \notin DOMAIN prev
             /\ last.id \in DOMAIN pristine
             /\ last.resp.book.title = last.body.title
             /\ last.resp.book.author = last.body.author
             /\ last.body.title # "" /\ last.body.author # ""
             /\ last.resp.book.created_at = last.resp.book.updated_at
    /\ \A i \in DOMAIN pristine :
          pristine[i].id = i /\ pristine[i].created_at = pristine[i].updated_at
    /\ (last.op = "get" /\ last.fail = "none" /\ last.id \in DOMAIN pristine)
          => /\ last.status = StatusOK
             /\ last.resp = EncodeBook(pristine[last.id])

\* a GET answered 200 for a record created after the clock had moved
C2_Witness ==
    /\ last.op = "get" /\ last.status = StatusOK
    /\ last.id \in DOMAIN pristine
    /\ last.resp.book.created_at > 0
    /\ last.resp.book.title = "T2"

\* C3: a PUT that answers 200 replaced title and author by the submitted
\* values, moved updated_at strictly forward, kept id and created_at, left
\* every other row alone, and its body is the stored row.
C3_UpdateAdvances ==
    (last.op = "update" /\ last.status = StatusOK)
       => /\ last.id \in DOMAIN prev
          /\ DOMAIN table = DOMAIN prev
          /\ table[last.id].title = last.body.title
          /\ table[last.id].author = last.body.author
          /\ table[last.id].updated_at > prev[last.id].updated_at
          /\ table[last.id].id = prev[last.id].id
          /\ table[last.id].created_at = prev[last.id].created_at
          /\ \A j \in DOMAIN table \ {last.id} : table[j] = prev[j]
          /\ last.resp = EncodeBook(table[last.id])

\* C4: a POST /books or PUT /books/<id> whose body is undecodable or has an
\* empty title or author answers 400 with no database call and the table as
\* it was, whether or not the id has a row; no stored row has an empty title
\* or author.
C4_InvalidBodyRejected ==
    /\ \A i \in DOMAIN table : table[i].title # "" /\ table[i].author # ""
    /\ ( /\ \/ last.handler = "handleBooks" /\ last.method = "POST"
            \/ last.handler = "handleBookByID" /\ last.method = "PUT"
         /\ \/ last.body.kind = "malformed"
            \/ last.body.kind = "json"
               /\ (last.body.title = "" \/ last.body.author = "") )
          => /\ last.status = StatusBadRequest
             /\ last.resp.kind = "error"
             /\ last.dbCalls = 0
             /\ table = prev

\* a PUT with an empty author on an id that has no row, while the table
\* holds another row, answered 400
C4_Witness ==
    /\ last.handler = "handleBookByID" /\ last.method = "PUT"
    /\ last.body.kind = "json" /\ last.body.author = ""
    /\ last.id \notin DOMAIN table
    /\ DOMAIN table # {}
    /\ last.status = StatusBadRequest

\* C5: a GET /books the database serves answers 200 with an array holding
\* every stored row once, in ascending id order; for the empty table the
\* array is empty, not null.
C5_ListAll ==
    (last.op = "list" /\ last.fail = "none")
       => /\ last.status = StatusOK
          /\ last.resp.kind = "array"
          /\ Len(last.resp.elems) = Cardinality(DOMAIN table)
          /\ \A i \in DOMAIN table :
                \E k \in 1..Len(last.resp.elems) : last.resp.elems[k] = table[i]
          /\ \A k \in 1..(Len(last.resp.elems) - 1) :
                last.resp.elems[k].id < last.resp.elems[k + 1].id

\* C6: a database failure at any point of an operation is answered 500 with
\* the generic error body.
C6_FailureIs500 ==
    (last.dbCalls = 1 /\ last.fail # "none")
       => /\ last.status = StatusInternalServerError
          /\ last.resp = EncodeError("internal server error")

\* C7: a request on /books/<segment> whose segment is no base-10 integer
\* answers 400 for every method, with no database call and the table as it
\* was.
C7_BadIdRejected ==
    (last.handler = "handleBookByID" /\ last.seg \in BadSegments)
       => /\ last.status = StatusBadRequest
          /\ last.resp.kind = "error"
          /\ last.dbCalls = 0
          /\ table = prev

\* a DELETE of /books/1/ answered 400 while the table holds a row
C7_Witness ==
    /\ last.handler = "handleBookByID"
    /\ last.seg = <<"1", "/">>
    /\ last.method = "DELETE"
    /\ last.status = StatusBadRequest
    /\ DOMAIN table # {}

\* C8: a request that is being handled is eventually answered, also when
\* the database never returns or the body never finishes arriving.
C8_EventuallyAnswered ==
    \A s \in OneSlot : (slots[s].pc # "idle") ~> (slots[s].pc = "idle")

\* C9: on /books a method other than GET and POST, and on /books/<id> with
\* an integer id a method other than GET, PUT and DELETE, answers 405 with
\* the error envelope, with no database call and the table as it was.
C9_MethodNotAllowed ==
    ( \/ last.handler = "handleBooks" /\ last.method \notin {"GET", "POST"}
      \/ /\ last.handler = "handleBookByID"
         /\ last.seg \in Segments \ BadSegments
         /\ last.method \notin {"GET", "PUT", "DELETE"} )
       => /\ last.status = StatusMethodNotAllowed
          /\ last.resp = EncodeError("method not allowed")
          /\ last.dbCalls = 0
          /\ table = prev

\* a PATCH of /books/1 answered 405 while id 1 has a row
C9_Witness ==
    /\ last.handler = "handleBookByID"
    /\ last.method = "PATCH"
    /\ last.seg = <<"1">>
    /\ 1 \in DOMAIN table
    /\ last.status = StatusMethodNotAllowed

\* C10: with requests interleaved, a request issues at most one statement;
\* every stored or returned record carries a (title, author) pair that one
\* request submitted together; an UPDATE the database serves answers 200
\* when its row is there and 404 when it is not, and never adds a row.
C10_SingleStatement ==
    /\ last.dbCalls \in {0, 1}
    /\ \A i \in DOMAIN table : PairOf(table[i]) \in submitted
    /\ last.resp.kind = "book" => PairOf(last.resp.book) \in submitted
    /\ last.op = "update" => DOMAIN table = DOMAIN prev
    /\ (last.op = "update" /\ last.fail = "none")
          => IF last.id \in DOMAIN prev
             THEN last.status = StatusOK /\ last.resp = EncodeBook(table[last.id])
             ELSE last.status = StatusNotFound /\ last.id \notin DOMAIN table

\* an UPDATE whose row was deleted while it was in flight answered 404,
\* after both pairs had been submitted
C10_Witness ==
    /\ last.op = "update" /\ last.raced
    /\ last.status = StatusNotFound
    /\ Cardinality(submitted) = 2

====
